---- MODULE Spec2Model ----
(***************************************************************************)
(* grpctest.Server: the lifecycle of the test server (Start, StartTLS,     *)
(* Close), the self-signed certificate of setupTLS, the cached client      *)
(* connection of ClientConn and the background accept loop, as a state     *)
(* machine.  The server code is the Go listing in src/README.md, lines     *)
(* 292-634.                                                                *)
(*                                                                         *)
(* Every public method locks s.mu on entry and unlocks it by defer, on     *)
(* return and on panic alike.  A method is modelled as: the call, the      *)
(* acquisition of the mutex, its body in one or more steps, the last of    *)
(* which returns (or panics) and releases the mutex.  A panic is recovered *)
(* by the caller, so the states it leaves behind are observable.           *)
(* The service-registration callback is taken to return.                   *)
(***************************************************************************)
EXTENDS Integers, Sequences, FiniteSets, TLC

\* Go's nil, for every pointer and interface field.
Nil == 0

\* Bounds of the model.
MaxCalls == 4

\* The goroutines calling the server's methods.
Threads == {1, 2}
\* The ports the OS may assign to net.Listen("tcp", "127.0.0.1:0").
Ports == {40001, 40002}
\* The instants time.Now() may return in setupTLS, in milliseconds: on a whole
\* second, and between two.
Times == {0, 1500}

\* time.Hour, in milliseconds.
Hour == 3600000

Ops == {"Start", "StartTLS", "Close", "Certificate", "ClientConn"}

VARIABLES
    \* fields of Server
    URL, TLS, Listener, server, started, closed, client, useTLS, cert, mu,
    \* the objects the fields point to, by identity (index)
    listeners, servers, conns, certs, tlsConfigs,
    \* the goroutines launched by start()
    loops,
    \* the calling goroutines: position, method, outcome, returned value
    pc, op, outcome, ret, fresh, haveOpts, late,
    \* bookkeeping of the calls made and returned
    calls, closeReturns, startReturned, registerCalls,
    \* client calls: what the handler produced, what the caller received
    handled, reply, handlerCalls,
    \* GreeterServer: its handlers, the request, the stream and the results
    gHandler, gStreamHandler, gReq, gIn, gPc, gResult, gRecv, gSent, gErr,
    \* Config.ServerOptions as a slice (backing array and length), and the
    \* options start() hands to grpc.NewServer
    ServerOptions, newServerOpts, oPc

fields == <<URL, TLS, Listener, server, started, closed, client, useTLS, cert>>
heap == <<listeners, servers, conns, certs, tlsConfigs>>
callers == <<pc, op, outcome, ret, fresh, haveOpts, late>>
ghosts == <<calls, closeReturns, startReturned, registerCalls>>
rpc == <<handled, reply, handlerCalls>>
greeter == <<gHandler, gStreamHandler, gReq, gIn, gPc, gResult, gRecv, gSent, gErr>>
config == <<ServerOptions, newServerOpts, oPc>>
vars == <<fields, mu, heap, loops, callers, ghosts, rpc, greeter, config>>

\* The address is never recorded in s.URL.
AddrString_Empty(p) == ""

\* listener.Addr().String() of a listener bound to 127.0.0.1:p.
AddrString(p) == "127.0.0.1:" \o ToString(p)

\* A nil-pointer dereference in the accept loop's goroutine ends the process.
Alive == \A g \in DOMAIN loops : loops[g].state # "crashed"

\* NewUnstartedServer: every field zero, Config holding the callback.
ServerInit ==
    /\ URL = ""
    /\ TLS = Nil
    /\ Listener = Nil
    /\ server = Nil
    /\ started = FALSE
    /\ closed = FALSE
    /\ client = Nil
    /\ useTLS = FALSE
    /\ cert = Nil
    /\ mu = Nil
    /\ listeners = <<>>
    /\ servers = <<>>
    /\ conns = <<>>
    /\ certs = <<>>
    /\ tlsConfigs = <<>>
    /\ loops = <<>>
    /\ pc = [t \in Threads |-> "idle"]
    /\ op = [t \in Threads |-> "none"]
    /\ outcome = [t \in Threads |-> "none"]
    /\ ret = [t \in Threads |-> Nil]
    /\ fresh = [t \in Threads |-> FALSE]
    /\ haveOpts = [t \in Threads |-> FALSE]
    /\ late = [t \in Threads |-> FALSE]
    /\ calls = 0
    /\ closeReturns = 0
    /\ startReturned = FALSE
    /\ registerCalls = 0
    /\ handled = [t \in Threads |-> "none"]
    /\ reply = [t \in Threads |-> "none"]
    /\ handlerCalls = 0

\* No GreeterServer call is under way.
GreeterIdle ==
    /\ gHandler = Nil
    /\ gStreamHandler = Nil
    /\ gReq = ""
    /\ gIn = <<>>
    /\ gPc = "off"
    /\ gResult = [msg |-> "", err |-> "none"]
    /\ gRecv = ""
    /\ gSent = <<>>
    /\ gErr = "none"

\* NewUnstartedServer leaves Config.ServerOptions nil; the option building of
\* start() is followed on its own further down.
ConfigIdle ==
    /\ ServerOptions = [arr |-> <<>>, len |-> 0]
    /\ newServerOpts = <<>>
    /\ oPc = "off"

Init == ServerInit /\ GreeterIdle /\ ConfigIdle

----
\* The calling goroutines.

Goto(t, l) ==
    /\ pc' = [pc EXCEPT ![t] = l]
    /\ UNCHANGED <<mu, op, outcome, ret, haveOpts, late>>

\* Unlock is called before each return and not deferred: a panic keeps the
\* mutex locked.
Finish_UnlockNotDeferred(t, out, r) ==
    /\ pc' = [pc EXCEPT ![t] = "idle"]
    /\ outcome' = [outcome EXCEPT ![t] = out]
    /\ ret' = [ret EXCEPT ![t] = r]
    /\ mu' = IF out = "panic" THEN mu ELSE Nil
    /\ UNCHANGED <<op, haveOpts, late>>

\* return r, or panic: the deferred s.mu.Unlock() runs either way.
Finish(t, out, r) ==
    /\ pc' = [pc EXCEPT ![t] = "idle"]
    /\ outcome' = [outcome EXCEPT ![t] = out]
    /\ ret' = [ret EXCEPT ![t] = r]
    /\ mu' = Nil
    /\ UNCHANGED <<op, haveOpts, late>>

\* A goroutine calls a method of the server.  ClientConn() has no parameter:
\* haveOpts records that the caller holds dial options it would want applied.
\* late records that the call is made after a Close has returned.
Call(t, o, h) ==
    /\ Alive
    /\ UNCHANGED <<rpc, greeter, config>>
    /\ pc[t] = "idle"
    /\ calls < MaxCalls
    /\ calls' = calls + 1
    /\ pc' = [pc EXCEPT ![t] = "lock"]
    /\ op' = [op EXCEPT ![t] = o]
    /\ outcome' = [outcome EXCEPT ![t] = "none"]
    /\ ret' = [ret EXCEPT ![t] = Nil]
    /\ fresh' = [fresh EXCEPT ![t] = FALSE]
    /\ haveOpts' = [haveOpts EXCEPT ![t] = h /\ o = "ClientConn"]
    /\ late' = [late EXCEPT ![t] = closeReturns > 0]
    /\ UNCHANGED <<fields, mu, heap, loops, closeReturns, startReturned, registerCalls>>

\* Lock does not wait for the holder.
MutexFree_NoLock == TRUE

\* The mutex is not held.
MutexFree == mu = Nil

\* s.mu.Lock()
Lock(t) ==
    /\ Alive
    /\ UNCHANGED <<rpc, greeter, config>>
    /\ pc[t] = "lock"
    /\ MutexFree
    /\ mu' = t
    /\ pc' = [pc EXCEPT ![t] = "body"]
    /\ UNCHANGED <<fields, heap, loops, op, outcome, ret, fresh, haveOpts, late, ghosts>>

----
\* Start and StartTLS.

\* The started guard is missing.
AlreadyStarted_NoGuard == FALSE

\* if s.started { return }
AlreadyStarted == started

\* Start, after the lock: the started guard, then s.useTLS = false.
StartBody(t) ==
    /\ Alive
    /\ UNCHANGED <<rpc, greeter, config>>
    /\ pc[t] = "body"
    /\ op[t] = "Start"
    /\ IF AlreadyStarted
       THEN /\ Finish(t, "ok", Nil)
            /\ startReturned' = TRUE
            /\ UNCHANGED <<fields, heap, loops, fresh, calls, closeReturns, registerCalls>>
       ELSE /\ useTLS' = FALSE
            /\ fresh' = [fresh EXCEPT ![t] = TRUE]
            /\ Goto(t, "listen")
            /\ UNCHANGED <<URL, TLS, Listener, server, started, closed, client, cert>>
            /\ UNCHANGED <<heap, loops, ghosts>>

\* StartTLS goes to start() without calling setupTLS.
AfterTLSGuard_NoSetup == "listen"

\* What StartTLS does once past the guard: s.setupTLS(), and only then
\* s.start().
AfterTLSGuard == "setupTLS"

\* StartTLS, after the lock: the started guard, then s.useTLS = true.
StartTLSBody(t) ==
    /\ Alive
    /\ UNCHANGED <<rpc, greeter, config>>
    /\ pc[t] = "body"
    /\ op[t] = "StartTLS"
    /\ IF AlreadyStarted
       THEN /\ Finish(t, "ok", Nil)
            /\ startReturned' = TRUE
            /\ UNCHANGED <<fields, heap, loops, fresh, calls, closeReturns, registerCalls>>
       ELSE /\ useTLS' = TRUE
            /\ fresh' = [fresh EXCEPT ![t] = TRUE]
            /\ Goto(t, AfterTLSGuard)
            /\ UNCHANGED <<URL, TLS, Listener, server, started, closed, client, cert>>
            /\ UNCHANGED <<heap, loops, ghosts>>

\* The certificate is valid for one hour.
NotAfterOf_OneHour(notBefore) == notBefore + Hour

\* The validity window of the template: notBefore.Add(24 * time.Hour).
NotAfterOf(notBefore) == notBefore + 24 * Hour

\* The template carries no DNS name.
TemplateDNSNames_None == {}

\* The names the template is bound to.
TemplateDNSNames == {"localhost"}

\* The certificate template of setupTLS, self-signed (issuer = subject).
Template(now) ==
    [ Organization |-> "grpctest",
      CommonName   |-> "localhost",
      Issuer       |-> "localhost",
      NotBefore    |-> now,
      NotAfter     |-> NotAfterOf(now),
      ExtKeyUsage  |-> {"ServerAuth"},
      DNSNames     |-> TemplateDNSNames,
      IPAddresses  |-> {"127.0.0.1", "::1"} ]

\* The times of a certificate are encoded to the second (ASN.1 UTCTime).
WholeSeconds(ms) == ms - (ms % (Hour \div 3600))

\* x509.ParseCertificate(x509.CreateCertificate(template, ...)): the
\* certificate kept in s.cert is the template as it comes back from its
\* encoding.  Generated records the instant time.Now() returned.
IssuedCertificate(now) ==
    [Generated |-> now] @@
    [Template(now) EXCEPT !.NotBefore = WholeSeconds(@), !.NotAfter = WholeSeconds(@)]

\* The tls.Config setupTLS installs for certificate c.
TLSConfigOf(c) == [Certificates |-> <<c>>, MinVersion |-> "TLS13"]

\* The places where setupTLS can fail: before s.cert is assigned (key, serial
\* number, CreateCertificate, ParseCertificate) or after it (MarshalECPrivateKey,
\* X509KeyPair).
SetupOutcomes == {"ok", "fail_before_cert", "fail_after_cert"}

\* setupTLS, and StartTLS's panic when it returns an error.
SetupTLS(t) ==
    /\ Alive
    /\ UNCHANGED <<rpc, greeter, config>>
    /\ pc[t] = "setupTLS"
    /\ \E res \in SetupOutcomes, now \in Times :
        CASE res = "fail_before_cert" ->
                /\ Finish(t, "panic", Nil)
                /\ UNCHANGED <<fields, heap>>
          [] res = "fail_after_cert" ->
                /\ certs' = Append(certs, IssuedCertificate(now))
                /\ cert' = Len(certs) + 1
                /\ Finish(t, "panic", Nil)
                /\ UNCHANGED <<URL, TLS, Listener, server, started, closed, client, useTLS>>
                /\ UNCHANGED <<listeners, servers, conns, tlsConfigs>>
          [] res = "ok" ->
                /\ certs' = Append(certs, IssuedCertificate(now))
                /\ cert' = Len(certs) + 1
                /\ tlsConfigs' = Append(tlsConfigs, TLSConfigOf(Len(certs) + 1))
                /\ TLS' = Len(tlsConfigs) + 1
                /\ Goto(t, "listen")
                /\ UNCHANGED <<URL, Listener, server, started, closed, client, useTLS>>
                /\ UNCHANGED <<listeners, servers, conns>>
    /\ UNCHANGED <<loops, fresh, ghosts>>

\* start(): its own started guard, then net.Listen; on success s.Listener and
\* s.URL are set, on failure the caller panics.
Listen(t) ==
    /\ Alive
    /\ UNCHANGED <<rpc, greeter, config>>
    /\ pc[t] = "listen"
    /\ IF started
       THEN /\ Finish(t, "ok", Nil)
            /\ startReturned' = TRUE
            /\ UNCHANGED <<fields, heap, calls, closeReturns, registerCalls>>
       ELSE \/ /\ Finish(t, "panic", Nil)
               /\ UNCHANGED <<fields, heap, ghosts>>
            \/ \E p \in Ports :
               /\ listeners' = Append(listeners, [port |-> p, open |-> TRUE])
               /\ Listener' = Len(listeners) + 1
               /\ URL' = AddrString(p)
               /\ Goto(t, "serve")
               /\ UNCHANGED <<TLS, server, started, closed, client, useTLS, cert>>
               /\ UNCHANGED <<servers, conns, certs, tlsConfigs, ghosts>>
    /\ UNCHANGED <<loops, fresh>>

\* start() appends no credentials option.
ServerCreds_None == Nil

\* The credentials option start() appends: if s.useTLS && s.TLS != nil.
ServerCreds == IF useTLS /\ TLS # Nil THEN TLS ELSE Nil

\* s.server = grpc.NewServer(opts...): the callback is entered next.
NewServer(t) ==
    /\ Alive
    /\ pc[t] = "serve"
    /\ servers' = Append(servers, [creds |-> ServerCreds, stopped |-> FALSE, services |-> 0])
    /\ server' = Len(servers) + 1
    /\ Goto(t, "register")
    /\ UNCHANGED <<URL, TLS, Listener, started, closed, client, useTLS, cert>>
    /\ UNCHANGED <<listeners, conns, certs, tlsConfigs, loops, fresh, ghosts, rpc, greeter, config>>

\* s.started = true is missing.
StartedAtEnd_Unset == started

\* s.started = true, the last statement of start().
StartedAtEnd == TRUE

\* The callback registers its service and returns: the accept loop is
\* launched, s.started = true, and the method returns.
RegisterReturns(t) ==
    /\ Alive
    /\ pc[t] = "register"
    /\ registerCalls' = registerCalls + 1
    /\ servers' = [servers EXCEPT ![server].services = 1]
    /\ loops' = Append(loops, [state |-> "spawned", srv |-> Nil, lis |-> Nil])
    /\ started' = StartedAtEnd
    /\ startReturned' = TRUE
    /\ Finish(t, "ok", Nil)
    /\ UNCHANGED <<URL, TLS, Listener, server, closed, client, useTLS, cert>>
    /\ UNCHANGED <<listeners, conns, certs, tlsConfigs, fresh, calls, closeReturns, rpc, greeter, config>>

----
\* Close and Certificate.

\* The closed guard is missing.
AlreadyClosed_NoGuard == FALSE

\* if s.closed { return }
AlreadyClosed == closed

\* The cached connection is dropped without being closed.
CloseConn_Leak(cs, c) == cs

\* s.client.Close(): the connection is closed.
CloseConn(cs, c) == [cs EXCEPT ![c].open = FALSE]

\* Close, after the lock: the closed guard, s.closed = true, then the cached
\* client, the RPC server and the listener are shut and their fields cleared.
\* grpc's Stop also closes the listeners the server serves on.
CloseBody(t) ==
    /\ Alive
    /\ UNCHANGED <<rpc, greeter, config>>
    /\ pc[t] = "body"
    /\ op[t] = "Close"
    /\ IF AlreadyClosed
       THEN UNCHANGED <<fields, heap>>
       ELSE /\ closed' = TRUE
            /\ conns' = IF client # Nil THEN CloseConn(conns, client) ELSE conns
            /\ client' = Nil
            /\ servers' = IF server # Nil
                          THEN [servers EXCEPT ![server].stopped = TRUE]
                          ELSE servers
            /\ server' = Nil
            /\ listeners' = IF Listener # Nil
                            THEN [listeners EXCEPT ![Listener].open = FALSE]
                            ELSE listeners
            /\ Listener' = Nil
            /\ UNCHANGED <<URL, TLS, started, useTLS, cert, certs, tlsConfigs>>
    /\ closeReturns' = IF closeReturns < 2 THEN closeReturns + 1 ELSE closeReturns
    /\ Finish(t, "ok", Nil)
    /\ UNCHANGED <<loops, fresh, calls, startReturned, registerCalls>>

\* Certificate: return s.cert.
\* The certificate is withheld once the server is closed.
CertificateResult_NilWhenClosed == IF closed THEN Nil ELSE cert

\* return s.cert
CertificateResult == cert

CertificateBody(t) ==
    /\ Alive
    /\ UNCHANGED <<rpc, greeter, config>>
    /\ pc[t] = "body"
    /\ op[t] = "Certificate"
    /\ Finish(t, "ok", CertificateResult)
    /\ UNCHANGED <<fields, heap, loops, fresh, ghosts>>

----
\* ClientConn.

\* if s.client != nil { return s.client }
CacheHit == client # Nil

\* The dial options carry a retry policy as well.
DialOptions_WithRetry ==
    <<IF useTLS THEN "TransportCredentials(tls)" ELSE "TransportCredentials(insecure)",
      "RetryPolicy">>

\* var opts []grpc.DialOption, and the one append of either branch: transport
\* credentials and nothing else (no interceptor, no service config).
DialOptions ==
    <<IF useTLS THEN "TransportCredentials(tls)" ELSE "TransportCredentials(insecure)">>

\* The dial options ClientConn builds: TLS credentials trusting s.cert with
\* ServerName localhost when s.useTLS, insecure credentials otherwise.
DialedConn ==
    [ target     |-> URL,
      opts       |-> DialOptions,
      tls        |-> useTLS,
      rootCA     |-> IF useTLS THEN cert ELSE Nil,
      serverName |-> IF useTLS THEN "localhost" ELSE "",
      open       |-> TRUE ]

\* The dialed connection is not stored in s.client.
CacheConn_NotStored(c) == client

\* s.client = conn
CacheConn(c) == c

\* The started check is missing.
NotStarted_NoCheck == FALSE

\* if !s.started { panic("grpctest: server not started") }
NotStarted == ~started

\* ClientConn, after the lock: the cached connection if there is one, a panic
\* if the server is not started, otherwise on to the dial.
ClientConnBody(t) ==
    /\ Alive
    /\ UNCHANGED <<rpc, greeter, config>>
    /\ pc[t] = "body"
    /\ op[t] = "ClientConn"
    /\ IF CacheHit
       THEN /\ Finish(t, "ok", client)
            /\ UNCHANGED fresh
       ELSE IF NotStarted
       THEN /\ Finish(t, "panic", Nil)
            /\ UNCHANGED fresh
       ELSE /\ Goto(t, "dial")
            /\ fresh' = [fresh EXCEPT ![t] = TRUE]
    /\ UNCHANGED <<fields, heap, loops, ghosts>>

\* The options and grpc.NewClient(s.URL, opts...): certPool.AddCert panics on a
\* nil certificate, and ClientConn panics when NewClient returns an error;
\* otherwise the connection is cached and returned.
Dial(t) ==
    /\ Alive
    /\ UNCHANGED <<rpc, greeter, config>>
    /\ pc[t] = "dial"
    /\ \/ /\ Finish(t, "panic", Nil)
          /\ UNCHANGED <<client, conns>>
       \/ /\ ~(useTLS /\ cert = Nil)
          /\ conns' = Append(conns, DialedConn)
          /\ client' = CacheConn(Len(conns) + 1)
          /\ Finish(t, "ok", Len(conns) + 1)
    /\ UNCHANGED <<URL, TLS, Listener, server, started, closed, useTLS, cert>>
    /\ UNCHANGED <<listeners, servers, certs, tlsConfigs, loops, fresh, ghosts>>

----
\* The accept loop: go func() { s.server.Serve(s.Listener) }().

\* The goroutine evaluates the receiver s.server, without the mutex.
LoopReadServer(g) ==
    /\ Alive
    /\ UNCHANGED <<rpc, greeter, config>>
    /\ loops[g].state = "spawned"
    /\ loops' = [loops EXCEPT ![g].state = "readServer", ![g].srv = server]
    /\ UNCHANGED <<fields, mu, heap, callers, ghosts>>

\* It evaluates the argument s.Listener and enters Serve: a nil server or, on a
\* stopped server, a nil listener is dereferenced; a stopped server closes the
\* listener and returns ErrServerStopped; otherwise the server accepts on it.
LoopServe(g) ==
    /\ Alive
    /\ UNCHANGED <<rpc, greeter, config>>
    /\ loops[g].state = "readServer"
    /\ LET srv == loops[g].srv
           lis == Listener
       IN IF srv = Nil
          THEN /\ loops' = [loops EXCEPT ![g].state = "crashed"]
               /\ UNCHANGED listeners
          ELSE IF servers[srv].stopped
          THEN IF lis = Nil
               THEN /\ loops' = [loops EXCEPT ![g].state = "crashed"]
                    /\ UNCHANGED listeners
               ELSE /\ loops' = [loops EXCEPT ![g].state = "exited", ![g].lis = lis]
                    /\ listeners' = [listeners EXCEPT ![lis].open = FALSE]
          ELSE /\ loops' = [loops EXCEPT ![g].state = "serving", ![g].lis = lis]
               /\ UNCHANGED listeners
    /\ UNCHANGED <<fields, mu, servers, conns, certs, tlsConfigs, callers, ghosts>>

\* Serve returns once the server is stopped or its listener closed; the error,
\* if any, is printed and the goroutine ends.
LoopExit(g) ==
    /\ Alive
    /\ UNCHANGED <<rpc, greeter, config>>
    /\ loops[g].state = "serving"
    /\ \/ servers[loops[g].srv].stopped
       \/ loops[g].lis # Nil /\ ~listeners[loops[g].lis].open
    /\ loops' = [loops EXCEPT ![g].state = "exited"]
    /\ UNCHANGED <<fields, mu, heap, callers, ghosts>>

----
\* A client call (pb.NewGreeterClient(conn).SayHello) through a connection
\* handed out by ClientConn.  The RPC framework is the primitive it is for the
\* program: a call reaches the handler when the connection is open, an accept
\* loop serves a live server on an open listener at the connection's target,
\* and the two sides agree on the transport.

Range(f) == {f[i] : i \in DOMAIN f}

\* The codes a registered handler answers with in the tests: a reply, or
\* status.Error(codes.InvalidArgument, ...), status.Error(codes.Internal, ...).
HandlerOutcomes == {"reply", "InvalidArgument", "Internal"}

\* The client of connection c trusts the certificate the server presents and
\* finds its ServerName among the certificate's names; plaintext meets
\* plaintext.
TransportAgrees(c, srv) ==
    IF conns[c].tls
    THEN /\ servers[srv].creds # Nil
         /\ conns[c].rootCA # Nil
         /\ tlsConfigs[servers[srv].creds].Certificates = <<conns[c].rootCA>>
         /\ conns[c].serverName \in certs[conns[c].rootCA].DNSNames
    ELSE servers[srv].creds = Nil

\* An accept loop serves, on an open listener bound to c's target, a server
\* that is not stopped.
ServingLoops(c) ==
    {g \in DOMAIN loops :
        /\ loops[g].state = "serving"
        /\ ~servers[loops[g].srv].stopped
        /\ listeners[loops[g].lis].open
        /\ AddrString(listeners[loops[g].lis].port) = conns[c].target}

\* The call is delivered to the handler.
Delivered(c) ==
    /\ conns[c].open
    /\ \E g \in ServingLoops(c) : TransportAgrees(c, loops[g].srv)

\* The call fails without reaching a handler: the connection is closed, no
\* open listener is left at the target, or the handshake fails.
Refused(c) ==
    \/ ~conns[c].open
    \/ \A l \in DOMAIN listeners :
          ~(listeners[l].open /\ AddrString(listeners[l].port) = conns[c].target)
    \/ \E g \in ServingLoops(c) : ~TransportAgrees(c, loops[g].srv)

\* How many times the framework runs the handler for one call made with the
\* dial options o: once, unless a retry policy was configured.
Attempts(o) == IF "RetryPolicy" \in Range(o) THEN 2 ELSE 1

\* What the caller receives when the handler produced h: nothing of the
\* wrapper stands between the two.
Received(h) == h

\* Goroutine t makes one call through connection c; the handler, if reached,
\* produces h.  A call that is neither delivered nor refused waits for the
\* accept loop.
Rpc(t, c, h) ==
    /\ Alive
    /\ pc[t] = "idle"
    /\ calls < MaxCalls
    /\ Delivered(c) \/ Refused(c)
    /\ calls' = calls + 1
    /\ op' = [op EXCEPT ![t] = "RPC"]
    /\ outcome' = [outcome EXCEPT ![t] = "ok"]
    /\ ret' = [ret EXCEPT ![t] = c]
    /\ fresh' = [fresh EXCEPT ![t] = FALSE]
    /\ haveOpts' = [haveOpts EXCEPT ![t] = FALSE]
    /\ late' = [late EXCEPT ![t] = closeReturns > 0]
    /\ IF Delivered(c)
       THEN /\ handlerCalls' = handlerCalls + Attempts(conns[c].opts)
            /\ handled' = [handled EXCEPT ![t] = h]
            /\ reply' = [reply EXCEPT ![t] = Received(h)]
       ELSE /\ handlerCalls' = handlerCalls
            /\ handled' = [handled EXCEPT ![t] = "none"]
            /\ reply' = [reply EXCEPT ![t] = "Unavailable"]
    /\ UNCHANGED <<fields, mu, heap, loops, pc, closeReturns, startReturned, registerCalls>>
    /\ UNCHANGED <<greeter, config>>

----
Next ==
    \/ \E t \in Threads, c \in DOMAIN conns, h \in HandlerOutcomes : Rpc(t, c, h)
    \/ \E t \in Threads, o \in Ops, h \in BOOLEAN : Call(t, o, h)
    \/ \E t \in Threads : Lock(t)
    \/ \E t \in Threads : StartBody(t)
    \/ \E t \in Threads : StartTLSBody(t)
    \/ \E t \in Threads : SetupTLS(t)
    \/ \E t \in Threads : Listen(t)
    \/ \E t \in Threads : NewServer(t)
    \/ \E t \in Threads : RegisterReturns(t)
    \/ \E t \in Threads : CloseBody(t)
    \/ \E t \in Threads : CertificateBody(t)
    \/ \E t \in Threads : ClientConnBody(t)
    \/ \E t \in Threads : Dial(t)
    \/ \E g \in DOMAIN loops : LoopReadServer(g)
    \/ \E g \in DOMAIN loops : LoopServe(g)
    \/ \E g \in DOMAIN loops : LoopExit(g)

Spec == Init /\ [][Next]_vars

----
\* GreeterServer (helpers.go), driven on its own: one SayHello call or one
\* SayHelloStream call on a GreeterServer whose handlers, request and incoming
\* stream are drawn from small sets.

MaxStream == 2

\* Request names: the empty name, an ordinary one, and the one the asserting
\* handler of the tests rejects.
Names == {"", "Bob", "error"}

\* The SayHello handlers of the tests.
AssertingHandler == 1
StrangerHandler == 2
UnaryHandlers == {AssertingHandler, StrangerHandler}

\* The one stream handler: it owns the stream and returns what it likes.
StreamHandlers == {1}
StreamHandlerErrors == {"nil", "handler error"}

\* What handler h returns for a request named name.
UnaryHandler(h, name) ==
    IF h = AssertingHandler
    THEN IF name = "" THEN [msg |-> "", err |-> "InvalidArgument"]
         ELSE IF name = "error" THEN [msg |-> "", err |-> "Internal"]
         ELSE [msg |-> "Hello " \o name, err |-> "nil"]
    ELSE IF name = "" THEN [msg |-> "Hello, stranger!", err |-> "nil"]
         ELSE [msg |-> "Hello, " \o name \o "!", err |-> "nil"]

\* SayHello never looks at SayHelloHandler.
SayHello_IgnoresHandler(h, name) == [msg |-> "Hello " \o name, err |-> "nil"]

\* GreeterServer.SayHello.
SayHello(h, name) ==
    IF h # Nil
    THEN UnaryHandler(h, name)
    ELSE [msg |-> "Hello " \o name, err |-> "nil"]

\* The message of the default stream reply: fmt.Sprintf with the name.
StreamReply(name) == "hello " \o name \o ", I'm sorry I'm busy......, bye"

\* The sequences over S of length at most n.
SeqUpTo(S, n) == UNION {[1..k -> S] : k \in 0..n}

\* A GreeterServer with its handlers set or not, a request, and a stream with
\* the messages the client will send; the test server is not involved.
GreeterInit ==
    /\ ServerInit
    /\ gHandler \in {Nil} \cup UnaryHandlers
    /\ gStreamHandler \in {Nil} \cup StreamHandlers
    /\ gReq \in Names
    /\ gIn \in SeqUpTo(Names, MaxStream)
    /\ gPc = "ready"
    /\ gResult = [msg |-> "", err |-> "none"]
    /\ gRecv = ""
    /\ gSent = <<>>
    /\ gErr = "none"
    /\ ConfigIdle

\* g.SayHello(ctx, req) is called and returns.
GSayHello ==
    /\ gPc = "ready"
    /\ gResult' = SayHello(gHandler, gReq)
    /\ gPc' = "unaryDone"
    /\ UNCHANGED <<gHandler, gStreamHandler, gReq, gIn, gRecv, gSent, gErr>>
    /\ UNCHANGED <<fields, mu, heap, loops, callers, ghosts, rpc, config>>

\* g.SayHelloStream(stream) is called: it returns what the handler returns if
\* one is set, and goes on to receive otherwise.
GStreamStart ==
    /\ gPc = "ready"
    /\ IF gStreamHandler # Nil
       THEN /\ gErr' \in StreamHandlerErrors
            /\ gPc' = "streamDone"
       ELSE /\ gPc' = "recv"
            /\ UNCHANGED gErr
    /\ UNCHANGED <<gHandler, gStreamHandler, gReq, gIn, gResult, gRecv, gSent>>
    /\ UNCHANGED <<fields, mu, heap, loops, callers, ghosts, rpc, config>>

\* req, err := stream.Recv(): the first message, or an error (the client has
\* sent nothing and closed, or the transport failed), which is returned wrapped.
GRecv ==
    /\ gPc = "recv"
    /\ \/ /\ gIn # <<>>
          /\ gRecv' = Head(gIn)
          /\ gIn' = Tail(gIn)
          /\ gPc' = "send"
          /\ UNCHANGED gErr
       \/ /\ gErr' = "failed to receive"
          /\ gPc' = "streamDone"
          /\ UNCHANGED <<gRecv, gIn>>
    /\ UNCHANGED <<gHandler, gStreamHandler, gReq, gResult, gSent>>
    /\ UNCHANGED <<fields, mu, heap, loops, callers, ghosts, rpc, config>>

\* stream.Send of the default reply: on success return nil, on failure the
\* error wrapped.
GSend ==
    /\ gPc = "send"
    /\ \/ /\ gSent' = Append(gSent, StreamReply(gRecv))
          /\ gErr' = "nil"
       \/ /\ gErr' = "failed to send"
          /\ UNCHANGED gSent
    /\ gPc' = "streamDone"
    /\ UNCHANGED <<gHandler, gStreamHandler, gReq, gIn, gResult, gRecv>>
    /\ UNCHANGED <<fields, mu, heap, loops, callers, ghosts, rpc, config>>

GreeterNext == GSayHello \/ GStreamStart \/ GRecv \/ GSend

SpecGreeter == GreeterInit /\ [][GreeterNext]_vars

----
\* The registration callback seen as what it is, a function of the caller: it
\* returns, panics, or calls a method of the server it is registering on; and
\* every goroutine and accept loop that can take a step eventually takes one.

MaxCallbackCalls == 3

\* A call, within the smaller budget of this specification.
CbCall(t, o, h) ==
    /\ calls < MaxCallbackCalls
    /\ Call(t, o, h)

\* The callback panics: the panic passes through start() and the method, whose
\* deferred Unlock runs; nothing start() has assigned so far is undone.
RegisterPanics(t) ==
    /\ Alive
    /\ pc[t] = "register"
    /\ registerCalls' = registerCalls + 1
    /\ Finish(t, "panic", Nil)
    /\ UNCHANGED <<fields, heap, loops, fresh, calls, closeReturns, startReturned, rpc, greeter, config>>

\* The callback calls a method of the server: the method's first statement is
\* s.mu.Lock(), on the goroutine that holds the mutex.
RegisterReenters(t) ==
    /\ Alive
    /\ pc[t] = "register"
    /\ registerCalls' = registerCalls + 1
    /\ pc' = [pc EXCEPT ![t] = "lock"]
    /\ UNCHANGED <<fields, mu, heap, loops, op, outcome, ret, fresh, haveOpts, late>>
    /\ UNCHANGED <<calls, closeReturns, startReturned, rpc, greeter, config>>

\* The steps of goroutine t once its call is made.
Step(t) ==
    \/ Lock(t)
    \/ StartBody(t)
    \/ StartTLSBody(t)
    \/ SetupTLS(t)
    \/ Listen(t)
    \/ NewServer(t)
    \/ RegisterReturns(t)
    \/ RegisterPanics(t)
    \/ RegisterReenters(t)
    \/ CloseBody(t)
    \/ CertificateBody(t)
    \/ ClientConnBody(t)
    \/ Dial(t)

\* The steps of the accept loops.
LoopStep == \E g \in DOMAIN loops : LoopReadServer(g) \/ LoopServe(g) \/ LoopExit(g)

NextCallback ==
    \/ \E t \in Threads, o \in Ops, h \in BOOLEAN : CbCall(t, o, h)
    \/ \E t \in Threads : Lock(t)
    \/ \E t \in Threads : StartBody(t)
    \/ \E t \in Threads : StartTLSBody(t)
    \/ \E t \in Threads : SetupTLS(t)
    \/ \E t \in Threads : Listen(t)
    \/ \E t \in Threads : NewServer(t)
    \/ \E t \in Threads : RegisterReturns(t)
    \/ \E t \in Threads : RegisterPanics(t)
    \/ \E t \in Threads : RegisterReenters(t)
    \/ \E t \in Threads : CloseBody(t)
    \/ \E t \in Threads : CertificateBody(t)
    \/ \E t \in Threads : ClientConnBody(t)
    \/ \E t \in Threads : Dial(t)
    \/ \E g \in DOMAIN loops : LoopReadServer(g)
    \/ \E g \in DOMAIN loops : LoopServe(g)
    \/ \E g \in DOMAIN loops : LoopExit(g)

\* The Go scheduler runs every runnable goroutine.
Fairness ==
    /\ \A t \in Threads : WF_vars(Step(t))
    /\ WF_vars(LoopStep)

SpecCallback == Init /\ [][NextCallback]_vars /\ Fairness

----
\* The options of the RPC server (start(), "Prepare server options"), on
\* their own: Config.ServerOptions is a Go slice, a window of len elements on
\* a backing array of cap elements, as the caller's appends have left it.

MaxCap == 2

\* Server options a caller may have put in Config.ServerOptions.
Options == {"MaxRecvMsgSize", "UnaryInterceptor", "StreamInterceptor"}

\* grpc.Creds(credentials.NewTLS(s.TLS)).
CredsOption == "Creds"

\* The elements of slice sl.
Elems(sl) == SubSeq(sl.arr, 1, sl.len)

\* append(sl, x): in place when the backing array has room, on a copy
\* otherwise.
GoAppend(sl, x) ==
    IF sl.len < Len(sl.arr)
    THEN [arr |-> [sl.arr EXCEPT ![sl.len + 1] = x], len |-> sl.len + 1]
    ELSE [arr |-> Append(Elems(sl), x), len |-> sl.len + 1]

\* What append leaves in the backing array of sl, which the caller's slice
\* still points to.
BackingAfterAppend(sl, x) ==
    IF sl.len < Len(sl.arr)
    THEN [sl.arr EXCEPT ![sl.len + 1] = x]
    ELSE sl.arr

\* grpc.NewServer is called with the credentials only.
StartOptions_OnlyCreds(sl) == IF ServerCreds # Nil THEN <<CredsOption>> ELSE <<>>

\* opts := s.Config.ServerOptions; if s.useTLS && s.TLS != nil { opts =
\* append(opts, grpc.Creds(creds)) }; the elements of opts.
StartOptions(sl) ==
    IF ServerCreds # Nil
    THEN Elems(GoAppend(sl, CredsOption))
    ELSE Elems(sl)

\* The slices of capacity at most MaxCap.
Slices ==
    UNION {[arr : [1..c -> Options], len : 0..c] : c \in 0..MaxCap}

\* The modes start() can find the server in: plaintext with nothing set,
\* plaintext after a StartTLS that failed at the bind, TLS after setupTLS.
StartModes == {"plain", "plainAfterFailedTLS", "tls"}

\* The server at the point where start() prepares the options, the listener
\* bound, in one of the three modes, with Config.ServerOptions as the caller
\* left it.
OptionsInit ==
    \E m \in StartModes, p \in Ports :
        /\ URL = AddrString(p)
        /\ Listener = 1
        /\ listeners = <<[port |-> p, open |-> TRUE]>>
        /\ useTLS = (m = "tls")
        /\ TLS = IF m = "plain" THEN Nil ELSE 1
        /\ cert = IF m = "plain" THEN Nil ELSE 1
        /\ certs = IF m = "plain" THEN <<>> ELSE <<IssuedCertificate(0)>>
        /\ tlsConfigs = IF m = "plain" THEN <<>> ELSE <<TLSConfigOf(1)>>
        /\ server = Nil
        /\ started = FALSE
        /\ closed = FALSE
        /\ client = Nil
        /\ mu = 1
        /\ servers = <<>>
        /\ conns = <<>>
        /\ loops = <<>>
        /\ pc = [t \in Threads |-> IF t = 1 THEN "serve" ELSE "idle"]
        /\ op = [t \in Threads |->
                    IF t = 1 THEN (IF m = "tls" THEN "StartTLS" ELSE "Start") ELSE "none"]
        /\ outcome = [t \in Threads |-> "none"]
        /\ ret = [t \in Threads |-> Nil]
        /\ fresh = [t \in Threads |-> t = 1]
        /\ haveOpts = [t \in Threads |-> FALSE]
        /\ late = [t \in Threads |-> FALSE]
        /\ calls = 1
        /\ closeReturns = 0
        /\ startReturned = FALSE
        /\ registerCalls = 0
        /\ handled = [t \in Threads |-> "none"]
        /\ reply = [t \in Threads |-> "none"]
        /\ handlerCalls = 0
        /\ GreeterIdle
        /\ ServerOptions \in Slices
        /\ newServerOpts = <<>>
        /\ oPc = "start"

\* The options are prepared and handed to grpc.NewServer.
PrepareOptions ==
    /\ oPc = "start"
    /\ newServerOpts' = StartOptions(ServerOptions)
    /\ ServerOptions' =
          IF ServerCreds # Nil
          THEN [ServerOptions EXCEPT !.arr = BackingAfterAppend(ServerOptions, CredsOption)]
          ELSE ServerOptions
    /\ oPc' = "done"
    /\ UNCHANGED <<fields, mu, heap, loops, callers, ghosts, rpc, greeter>>

OptionsNext == PrepareOptions

SpecOptions == OptionsInit /\ [][OptionsNext]_vars

----
\* The properties of the lifecycle.

\* No method holds the mutex: the states a caller observes between calls.
Quiescent == mu = Nil

\* Thread t takes the step that ends its call of method o.
Returns(t, o) == op[t] = o /\ pc[t] # "idle" /\ pc'[t] = "idle"

\* C1: the closed state is terminal: a Start or StartTLS called after a Close
\* has returned binds no listener, constructs no RPC server, launches no
\* accept loop and leaves the started flag and the URL as they were.
C1_ClosedIsTerminal ==
    [][\A t \in Threads :
          (late[t] /\ op[t] \in {"Start", "StartTLS"} /\ pc'[t] # pc[t] /\ pc[t] # "idle") =>
              /\ Len(listeners') = Len(listeners)
              /\ Len(servers') = Len(servers)
              /\ Len(loops') = Len(loops)
              /\ UNCHANGED <<started, URL>>]_vars

\* The three lifecycle states, by the flags and the resources each one holds.
InUnstarted == ~started /\ ~closed /\ Listener = Nil /\ server = Nil
InStarted == started /\ ~closed /\ Listener # Nil /\ server # Nil
InClosed == closed /\ Listener = Nil /\ server = Nil

\* C2: between calls, the server is in exactly one of the lifecycle states
\* unstarted, started and closed.
C2_ExactlyOneState ==
    Quiescent =>
        Cardinality({i \in 1..3 : <<InUnstarted, InStarted, InClosed>>[i]}) = 1

\* C3: Close is idempotent: a Close that runs after a Close has returned
\* returns normally and changes no field of the server and no object it holds.
C3_CloseIdempotent ==
    [][\A t \in Threads :
          (closeReturns > 0 /\ pc[t] = "body" /\ Returns(t, "Close")) =>
              /\ UNCHANGED <<fields, heap, loops>>
              /\ outcome'[t] = "ok"]_vars

\* A second Close has returned, on a server closed while unstarted or started.
C3_Witness == closeReturns >= 2 /\ Quiescent

\* C4: Start and StartTLS on a started server return normally and leave URL,
\* Listener, TLS, the certificate, the mode and the RPC server unchanged.
C4_StartIsNoopWhenStarted ==
    [][\A t \in Threads :
          (started /\ pc[t] = "body" /\ op[t] \in {"Start", "StartTLS"} /\ pc'[t] # pc[t]) =>
              /\ UNCHANGED <<fields, heap, loops>>
              /\ pc'[t] = "idle"
              /\ outcome'[t] = "ok"]_vars

\* StartTLS has returned on a server started by Start, which is still
\* plaintext and has no certificate.
C4_WitnessTLSAfterStart ==
    \E t \in Threads :
        /\ op[t] = "StartTLS" /\ pc[t] = "idle" /\ outcome[t] = "ok" /\ ~fresh[t]
        /\ started /\ ~useTLS /\ TLS = Nil /\ cert = Nil

C6_TLSAfterStartTLS ==
    \A t \in Threads :
        (op[t] = "StartTLS" /\ pc[t] = "idle" /\ outcome[t] = "ok" /\ fresh[t]) =>
            /\ TLS # Nil
            /\ cert # Nil
            /\ "localhost" \in certs[cert].DNSNames
            /\ tlsConfigs[TLS].Certificates = <<cert>>

C6_Witness ==
    \E t \in Threads :
        op[t] = "StartTLS" /\ pc[t] = "idle" /\ outcome[t] = "ok" /\ fresh[t]

\* C7: between calls, a server that is not in TLS mode (not started, or
\* started by Start) has a nil TLS field and a nil certificate.
C7_NoTLSOutsideTLSMode ==
    (Quiescent /\ ~(started /\ useTLS)) => (TLS = Nil /\ cert = Nil)

\* C8: on a server that is not closed, at most one connection has been dialed
\* and every ClientConn call made without options returned it.
C8_OneCachedConn ==
    ~closed =>
        /\ Len(conns) <= 1
        /\ \A t \in Threads :
              (op[t] = "ClientConn" /\ pc[t] = "idle" /\ outcome[t] = "ok" /\ ~haveOpts[t]) =>
                  (ret[t] # Nil /\ ret[t] = client)

\* Two goroutines have both obtained the connection.
C8_Witness ==
    /\ ~closed
    /\ \A t \in Threads :
          op[t] = "ClientConn" /\ pc[t] = "idle" /\ outcome[t] = "ok" /\ ~haveOpts[t]

\* C9 as stated: a ClientConn call by a caller holding options returns a
\* freshly dialed connection other than the cached one and leaves the cache
\* as it was.
C9_OptionsBypassCache ==
    [][\A t \in Threads :
          (haveOpts[t] /\ Returns(t, "ClientConn") /\ outcome'[t] = "ok") =>
              /\ ret'[t] = Len(conns) + 1
              /\ Len(conns') = Len(conns) + 1
              /\ client' = client]_vars

\* C9 amended: every ClientConn call that returns, whatever options its caller
\* holds, returns the connection that is cached when it returns: the one
\* already cached, with nothing dialed, or else the one it dialed and cached.
C9_AlwaysThroughCache ==
    [][\A t \in Threads :
          (Returns(t, "ClientConn") /\ outcome'[t] = "ok") =>
              /\ ret'[t] # Nil
              /\ ret'[t] = client'
              /\ client # Nil => (client' = client /\ conns' = conns)
              /\ client = Nil => (client' = Len(conns) + 1 /\ Len(conns') = Len(conns) + 1)]_vars

\* A caller holding options was handed the connection cached by another call.
C9_Witness ==
    \E t \in Threads :
        /\ haveOpts[t] /\ op[t] = "ClientConn" /\ pc[t] = "idle" /\ outcome[t] = "ok"
        /\ ~fresh[t] /\ ret[t] = client

\* C10: once a Close has returned, no connection made by ClientConn is open
\* and none is cached.
C10_ConnsClosedAfterClose ==
    (Quiescent /\ closeReturns > 0) =>
        (client = Nil /\ \A c \in DOMAIN conns : ~conns[c].open)

\* C11: every client call made after a Close has returned comes back with an
\* error, whichever connection it goes through and whatever Start or StartTLS
\* calls were made in between.
C11_NoCallSucceedsAfterClose ==
    \A t \in Threads :
        (op[t] = "RPC" /\ pc[t] = "idle" /\ late[t]) => reply[t] # "reply"

\* C12: when a Close call returns, no listener is open, no RPC server is
\* running and the cached client connection, if any, is closed.
C12_CloseReleasesAll ==
    [][\A t \in Threads :
          Returns(t, "Close") =>
              /\ \A l \in DOMAIN listeners' : ~listeners'[l].open
              /\ \A r \in DOMAIN servers' : servers'[r].stopped
              /\ client' # Nil => ~conns'[client'].open]_vars

\* C13: ClientConn on a server that is not started panics, dials nothing and
\* changes no field of the server: no connection is cached.
C13_ClientConnPanicsUnstarted ==
    [][\A t \in Threads :
          (~started /\ pc[t] = "body" /\ op[t] = "ClientConn" /\ pc'[t] # pc[t]) =>
              /\ pc'[t] = "idle"
              /\ outcome'[t] = "panic"
              /\ ret'[t] = Nil
              /\ client' = Nil
              /\ UNCHANGED <<fields, heap, loops>>]_vars

\* ClientConn has panicked on an unstarted server that was closed.
C13_Witness ==
    \E t \in Threads :
        /\ op[t] = "ClientConn" /\ pc[t] = "idle" /\ outcome[t] = "panic"
        /\ ~started /\ closed /\ late[t] /\ conns = <<>>

\* The connections made by ClientConn that are still open.
OpenConns == {c \in DOMAIN conns : conns[c].open}

\* C14: at most one connection made by ClientConn is open at any time.
C14_AtMostOneOpenConn == Cardinality(OpenConns) <= 1

\* A second connection was dialed after Close closed the first.
C14_Witness ==
    /\ Len(conns) = 2
    /\ ~conns[1].open
    /\ conns[2].open
    /\ client = 2

\* C15 as stated: a Certificate call made after Close has returned on a TLS
\* server returns nil.
C15_CertDiscardedOnClose ==
    [][\A t \in Threads :
          (Returns(t, "Certificate") /\ late[t] /\ closed /\ started /\ useTLS) =>
              ret'[t] = Nil]_vars

\* C15: Close keeps the certificate: a Certificate call made after Close has
\* returned on a TLS server returns the certificate the server holds, which
\* names localhost.
C15_CertKeptAfterClose ==
    [][\A t \in Threads :
          (Returns(t, "Certificate") /\ late[t] /\ closed /\ started /\ useTLS) =>
              /\ ret'[t] # Nil
              /\ ret'[t] = cert
              /\ "localhost" \in certs[cert].DNSNames
              /\ UNCHANGED cert]_vars

\* Certificate has returned a certificate on a closed TLS server.
C15_Witness ==
    \E t \in Threads :
        /\ op[t] = "Certificate" /\ pc[t] = "idle" /\ late[t]
        /\ closed /\ started /\ useTLS
        /\ ret[t] # Nil /\ ret[t] = cert

\* C16: every connection ClientConn dialed has the transport of the RPC
\* server start() constructed: TLS credentials that trust the server's
\* certificate, with ServerName localhost among that certificate's names,
\* exactly when the server presents a certificate, plaintext otherwise; and no
\* call made through it to a server that is not closed fails to reach the
\* handler.
C16_DialMatchesServerMode ==
    /\ \A c \in DOMAIN conns :
          /\ Len(servers) = 1
          /\ conns[c].tls <=> servers[1].creds # Nil
          /\ conns[c].tls <=> useTLS
          /\ TransportAgrees(c, 1)
          /\ conns[c].tls =>
                /\ conns[c].rootCA = cert
                /\ conns[c].serverName = "localhost"
                /\ "localhost" \in certs[cert].DNSNames
          /\ ~conns[c].tls => conns[c].rootCA = Nil
    /\ \A t \in Threads :
          (op[t] = "RPC" /\ pc[t] = "idle" /\ ~closed) => reply[t] # "Unavailable"

\* A call through ClientConn's connection to a TLS server got its reply.
C16_Witness ==
    \E t \in Threads :
        /\ op[t] = "RPC" /\ pc[t] = "idle" /\ reply[t] = "reply"
        /\ ~closed /\ useTLS
        /\ conns[ret[t]].tls /\ conns[ret[t]].rootCA = cert

\* The two goroutines have each made one call, a Start and a StartTLS, on the
\* server as constructed; both calls are over.
StartRace ==
    /\ calls = 2
    /\ {op[t] : t \in Threads} = {"Start", "StartTLS"}
    /\ \A t \in Threads : pc[t] = "idle"

\* The calls of the race that passed the started guard and returned normally.
Winners == {t \in Threads : fresh[t] /\ outcome[t] = "ok"}

\* C17: when a Start and a StartTLS race on an unstarted server and the server
\* is started, exactly one of the two took effect, one listener is bound, one
\* RPC server is constructed, and the TLS field and the certificate are set
\* exactly when StartTLS is the one that took effect.
C17_StartRaceSerialized ==
    (StartRace /\ started) =>
        /\ Cardinality(Winners) = 1
        /\ Len(listeners) = 1
        /\ Len(servers) = 1
        /\ Len(loops) = 1
        /\ \A t \in Winners :
              /\ useTLS <=> op[t] = "StartTLS"
              /\ (TLS # Nil /\ cert # Nil) <=> op[t] = "StartTLS"
              /\ (TLS = Nil /\ cert = Nil) <=> op[t] = "Start"

\* The same, where neither call of the race panicked.
C17_BothReturnedNormally ==
    (StartRace /\ \A t \in Threads : outcome[t] = "ok") => C17_StartRaceSerialized

\* C18: a call made through a connection of ClientConn to a started server
\* that is not closed runs the handler once, and the caller receives what the
\* handler produced: its reply, or its error with the same code.  Step by
\* step, N such calls run the handler N times.
C18_NoRetryNoHiding ==
    [][\A t \in Threads, c \in DOMAIN conns, h \in HandlerOutcomes :
          (Rpc(t, c, h) /\ started /\ ~closed) =>
              /\ handlerCalls' = handlerCalls + 1
              /\ handled'[t] = h
              /\ reply'[t] = h]_vars

\* Two calls were made on a server that is not closed, the handler ran twice,
\* and the caller of the last one received the handler's Internal error.
C18_Witness ==
    \E t \in Threads :
        /\ op[t] = "RPC" /\ pc[t] = "idle"
        /\ started /\ ~closed
        /\ handlerCalls = 2
        /\ handled[t] = "Internal" /\ reply[t] = "Internal"

\* C19: SayHello returns what SayHelloHandler returns, reply and error, when
\* the handler is set, and the message "Hello <name>" with a nil error when it
\* is not, the empty name included.
C19_SayHello ==
    gPc = "unaryDone" =>
        IF gHandler # Nil
        THEN gResult = UnaryHandler(gHandler, gReq)
        ELSE gResult = [msg |-> "Hello " \o gReq, err |-> "nil"]

\* SayHello has answered the empty name without a handler.
C19_Witness ==
    /\ gPc = "unaryDone"
    /\ gHandler = Nil
    /\ gReq = ""
    /\ gResult = [msg |-> "Hello ", err |-> "nil"]

\* The default stream reply as the comments of helpers.go give it.
DocumentedStreamReply(name) == "hello " \o name \o ", I'm sorry I'm busy..., bye"

\* C20: SayHelloStream without a handler, once it has received the first
\* message and returned nil, has sent exactly one reply, with the message
\* "hello <name>, I'm sorry I'm busy..., bye" for that message's name.
C20_DefaultStreamReply ==
    (gPc = "streamDone" /\ gStreamHandler = Nil /\ gErr = "nil") =>
        gSent = <<DocumentedStreamReply(gRecv)>>

\* C21: the accept loop serves on the RPC server and the listener its start
\* created: it never finds s.server or s.Listener cleared by Close, and never
\* faults.
C21_LoopNeverReadsCleared ==
    \A g \in DOMAIN loops :
        /\ loops[g].state # "crashed"
        /\ loops[g].state \in {"readServer", "serving", "exited"} => loops[g].srv = g
        /\ loops[g].state \in {"serving", "exited"} => loops[g].lis = g

\* C22: every call that is under way eventually returns or panics, as long as
\* the process lives.
C22_EveryCallEnds ==
    \A t \in Threads : [](pc[t] # "idle" => <>(pc[t] = "idle" \/ ~Alive))

C24_CertificateBeforeBind ==
    [][\A t \in Threads :
          op[t] = "StartTLS" =>
              /\ (pc[t] = "listen" /\ pc'[t] = "serve") =>
                    /\ TLS # Nil /\ cert # Nil
                    /\ tlsConfigs[TLS].Certificates = <<cert>>
                    /\ UNCHANGED <<TLS, cert>>
              /\ (pc[t] = "serve" /\ pc'[t] = "register") =>
                    /\ Len(servers') = Len(servers) + 1
                    /\ servers'[server'].creds = TLS
                    /\ TLS # Nil
              /\ (pc[t] = "setupTLS" /\ pc'[t] = "idle") =>
                    /\ outcome'[t] = "panic"
                    /\ listeners' = listeners
                    /\ Listener' = Nil
                    /\ servers' = servers
                    /\ ~started']_vars

\* StartTLS has returned with one listener bound and the one RPC server
\* carrying the TLS field as its credentials.
C24_Witness ==
    \E t \in Threads :
        /\ op[t] = "StartTLS" /\ pc[t] = "idle" /\ outcome[t] = "ok" /\ fresh[t]
        /\ Len(listeners) = 1 /\ Len(servers) = 1
        /\ TLS # Nil /\ servers[1].creds = TLS

C26_OptionsPassedAndKept ==
    [][(oPc = "start" /\ oPc' = "done") =>
          /\ newServerOpts' =
                Elems(ServerOptions) \o (IF useTLS THEN <<CredsOption>> ELSE <<>>)
          /\ ServerOptions'.len = ServerOptions.len
          /\ Elems(ServerOptions') = Elems(ServerOptions)]_vars

\* A TLS server was started on a slice with one option and room for a second:
\* the credentials option was written into the backing array, past the
\* slice's length.
C26_Witness ==
    /\ oPc = "done"
    /\ useTLS
    /\ ServerOptions.len = 1
    /\ Len(ServerOptions.arr) = 2
    /\ ServerOptions.arr[2] = CredsOption
    /\ newServerOpts = <<ServerOptions.arr[1], CredsOption>>

\* C27: once a Close has returned, from some point on no accept loop is
\* serving.
C27_LoopsEndAfterClose ==
    [](closeReturns > 0 => <>[](\A g \in DOMAIN loops : loops[g].state # "serving"))

\* C28 as stated: every certificate issued has NotAfter = NotBefore + 24
\* hours and NotBefore equal to the instant it was generated at.
C28_ValidFromGeneration ==
    \A c \in DOMAIN certs :
        /\ certs[c].NotAfter = certs[c].NotBefore + 24 * Hour
        /\ certs[c].NotBefore = certs[c].Generated

\* C28: every certificate issued has NotAfter = NotBefore + 24 hours and
\* NotBefore equal to the instant it was generated at cut to the whole second.
C28_ValidFromGenerationSecond ==
    \A c \in DOMAIN certs :
        /\ certs[c].NotAfter = certs[c].NotBefore + 24 * Hour
        /\ certs[c].NotBefore = WholeSeconds(certs[c].Generated)
        /\ certs[c].NotBefore <= certs[c].Generated
        /\ certs[c].Generated - certs[c].NotBefore < Hour \div 3600

\* The server's certificate was generated between two seconds.
C28_Witness ==
    /\ cert # Nil
    /\ certs[cert].Generated # certs[cert].NotBefore
    /\ started /\ useTLS

====
